---- MODULE Spec2Model ----
(***************************************************************************)
(* Mippet: a macro-assembler lowering a pseudo-assembly dialect to MIPS.   *)
(* The model holds the code generator's lowering rules (the text they      *)
(* emit, line by line), the registration pass and validation, and a small  *)
(* MIPS machine on which the emitted lines are run.                        *)
(***************************************************************************)
EXTENDS Integers, Sequences, FiniteSets, TLC

VARIABLES
  cpu,         \* the target machine: [regs, mem, hi, data, fault]
  stack,       \* SpillContext.stack of the SpillContext under test
  procedures,  \* Context.procedures
  symbols,     \* Context.symbols: sequence of [name, count] in insertion order
  out,         \* text of the last lowering, a sequence of lines
  diags,       \* warnings issued so far, in order
  pc,          \* position of the run
  hist,        \* frames spilled and not yet unspilled, oldest first
  last,        \* the operation that ran last, with the machine before it
  ast,         \* the parsed tree of the unit being built
  syscalls,    \* SyscallInstruction.SYSCALLS, the table read from syscalls.txt
  err,         \* the exception that ended the run, or NoError
  source_text, \* the unit's source text, as the items the parser meets
  build_target \* the unit's output file: [exists, text]

vars == <<cpu, stack, procedures, symbols, out, diags, pc, hist, last,
          ast, syscalls, err, source_text, build_target>>
unit == <<ast, syscalls, err, source_text, build_target>>

(***************************************************************************)
(* Bounds of the model.                                                    *)
(***************************************************************************)
MaxLen == 2      \* longest register list handed to spill
MaxDepth == 2    \* deepest spill depth
MaxNest == 2     \* spills outstanding at once
SpWord == 13     \* word index of the initial stack pointer
MaxVal == 7      \* runtime values range over -MaxVal..MaxVal

(***************************************************************************)
(* Names are sequences of characters, so that prefixes can be tested.      *)
(***************************************************************************)
Name_return == <<"_", "r", "e", "t", "u", "r", "n">>
Name_main == <<"m", "a", "i", "n">>
Name_entry == <<"e", "n", "t", "r", "y">>
Name_halt == <<"h", "a", "l", "t">>
Name_print_int == <<"p", "r", "i", "n", "t", "_", "i", "n", "t">>
Name_foo == <<"f", "o", "o">>
Name_bar == <<"b", "a", "r">>
Name_tmp == <<"_", "t", "m", "p">>
NoName == <<>>

\* An exception: its class, the fixed words of its message, and the symbol
\* the message names (NoName when it names none).
Error(type, text, name) == [type |-> type, text |-> text, name |-> name]
NoError == Error("none", "", NoName)

\* The output file of a unit: absent, or holding a text.
NoFile == [exists |-> FALSE, text |-> <<>>]
File(text) == [exists |-> TRUE, text |-> text]

(***************************************************************************)
(* Operand nodes (node.py).  One record shape for every operand kind.      *)
(***************************************************************************)
NumberNode(v) == [k |-> "num", reg |-> "", n |-> v, name |-> NoName]
IdentifierNode(nm) == [k |-> "id", reg |-> "", n |-> 0, name |-> nm]
RegisterNode(r) == [k |-> "reg", reg |-> r, n |-> 0, name |-> NoName]
PointerNode(base, offset) == [k |-> "ptr", reg |-> base, n |-> offset, name |-> NoName]

sp == "$sp"
ra == "$ra"
v0 == "$v0"
t9 == "$t9"

PROCEDURE_SPILLS == <<"$s0", "$s1", "$s2", "$s3", "$s4", "$s5", "$s6", "$s7">>

(***************************************************************************)
(* Text.  A text is a sequence of lines; a line is an instruction          *)
(* `    mnemonic a, b, ...` kept as [op, args], or the empty line.         *)
(***************************************************************************)
Blank == [op |-> "", args |-> <<>>]

\* InstructionNode.construct: the mnemonic, then the arguments in the order
\* of the class's `arguments` property.
Line(mneumonic, arguments) == [op |-> mneumonic, args |-> arguments]

AddIntegerInstruction(destination, source, value) ==
  Line("addi", <<RegisterNode(destination), RegisterNode(source), NumberNode(value)>>)

\* StoreWordInstruction(destination, source).arguments = [source, destination]
StoreWordInstruction(destination, source) ==
  Line("sw", <<RegisterNode(source), destination>>)

LoadWordInstruction(destination, source) ==
  Line("lw", <<RegisterNode(destination), source>>)

LoadIntegerInstruction(reg, value) ==
  Line("li", <<RegisterNode(reg), NumberNode(value)>>)

JumpAndLinkInstruction(target) == Line("jal", <<IdentifierNode(target)>>)

JumpRegisterInstruction(target) == Line("jr", <<RegisterNode(target)>>)

MultiplyRegisterInstruction(destination, source, value) ==
  Line("mul", <<RegisterNode(destination), RegisterNode(source), RegisterNode(value)>>)

\* GenericInstruction.parse_arguments([mneumonic, *arguments])
GenericInstruction(mneumonic, arguments) == Line(mneumonic, arguments)

RECURSIVE Flatten(_)
\* construct(list): the texts of the elements joined by newlines.  An empty
\* list gives the empty string, which is one empty line once it is joined
\* into a larger text.
Flatten(texts) ==
  IF texts = <<>> THEN <<>> ELSE Head(texts) \o Flatten(Tail(texts))

construct(texts) == IF texts = <<>> THEN <<Blank>> ELSE Flatten(texts)

(***************************************************************************)
(* SpillContext (instruction.py).                                          *)
(***************************************************************************)
\* Mutant: every register is stored one slot higher.
spillFlat_oneUp(registers) ==
  construct(<<
    <<AddIntegerInstruction(sp, sp, Len(registers) * (-4))>>,
    construct([i \in 1..Len(registers) |->
      <<StoreWordInstruction(PointerNode(sp, (i + 1) * 4), registers[i])>>])
  >>)

\* spill, depth = 0 (lines 24-30): one addi, then one sw per register.
spillFlat(registers) ==
  construct(<<
    <<AddIntegerInstruction(sp, sp, Len(registers) * (-4))>>,
    construct([i \in 1..Len(registers) |->
      <<StoreWordInstruction(PointerNode(sp, i * 4), registers[i])>>])
  >>)

\* Mutant: the save goes on top of the frame, nothing is shifted.
spillShift_onTop(reg, depth) ==
  construct(<<
    <<AddIntegerInstruction(sp, sp, -4)>>,
    <<StoreWordInstruction(PointerNode(sp, 4), reg)>>
  >>)

\* Mutant: the register is stored one slot too high, over the last word.
spillShift_overWord(reg, depth) ==
  construct(<<
    <<AddIntegerInstruction(sp, sp, -4)>>,
    construct([i \in 1..depth |->
      <<LoadWordInstruction(t9, PointerNode(sp, (i + 1) * 4)),
        StoreWordInstruction(PointerNode(sp, i * 4), t9)>>]),
    <<StoreWordInstruction(PointerNode(sp, depth * 4), reg)>>
  >>)

\* spill of one register at depth > 0 (lines 36-47).
spillShift(reg, depth) ==
  construct(<<
    <<AddIntegerInstruction(sp, sp, -4)>>,
    construct([i \in 1..depth |->
      <<LoadWordInstruction(t9, PointerNode(sp, (i + 1) * 4)),
        StoreWordInstruction(PointerNode(sp, i * 4), t9)>>]),
    <<StoreWordInstruction(PointerNode(sp, (depth + 1) * 4), reg)>>
  >>)

RECURSIVE spill(_, _, _)
\* SpillContext.spill(*registers, depth): the new stack of groups and the
\* emitted text.
spill(stk, registers, depth) ==
  IF registers = <<>> THEN [stack |-> stk, text |-> <<Blank>>]
  ELSE LET pushed == Append(stk, registers)
           n == Len(registers)
       IN IF depth = 0 THEN [stack |-> pushed, text |-> spillFlat(registers)]
          ELSE IF n > 1
          THEN LET lastOne == spill(pushed, <<registers[n]>>, depth)
                   others == spill(lastOne.stack, SubSeq(registers, 1, n - 1), depth)
               IN [stack |-> others.stack,
                   text |-> construct(<<lastOne.text, others.text>>)]
          ELSE [stack |-> pushed, text |-> spillShift(registers[1], depth)]

\* Mutant: the slots are read from offset 0 instead of 4.
unspillText_fromZero(registers) ==
  construct(
    [i \in 1..Len(registers) |->
      <<LoadWordInstruction(registers[i], PointerNode(sp, (i - 1) * 4))>>]
    \o << <<AddIntegerInstruction(sp, sp, 4 * Len(registers))>> >>)

\* unspill (lines 52-57): one lw per register, then one addi.
unspillText(registers) ==
  construct(
    [i \in 1..Len(registers) |->
      <<LoadWordInstruction(registers[i], PointerNode(sp, i * 4))>>]
    \o << <<AddIntegerInstruction(sp, sp, 4 * Len(registers))>> >>)

\* SpillContext.unspill(registers): `given` is FALSE for registers=None,
\* and then the most recent group is popped (the caller sees to stk # <<>>).
unspill(stk, given, registers) ==
  IF given THEN [stack |-> stk, text |-> unspillText(registers)]
  ELSE [stack |-> SubSeq(stk, 1, Len(stk) - 1),
        text |-> unspillText(stk[Len(stk)])]

\* PushInstuction.construct: a fresh SpillContext, spill at depth 0.
PushInstuction(source) == construct(<<spill(<<>>, <<source>>, 0).text>>)

\* PopInstruction.construct, with and without a destination.
PopInstruction(hasDestination, destination) ==
  IF ~hasDestination THEN <<AddIntegerInstruction(sp, sp, 4)>>
  ELSE construct(<<unspill(<<>>, TRUE, <<destination>>).text>>)

(***************************************************************************)
(* Context (node.py): `procedures` maps a name to the procedure's ordered  *)
(* parameters; `symbols` is the usage counter, a dict kept here as the     *)
(* sequence of its [name, count] items in insertion order.                 *)
(***************************************************************************)
InSymbols(sy, nm) == \E i \in 1..Len(sy) : sy[i].name = nm
Count(sy, nm) ==
  IF InSymbols(sy, nm) THEN sy[CHOOSE i \in 1..Len(sy) : sy[i].name = nm].count ELSE 0

\* IdentifierNode.register: ctxt.symbols[self] += 1 on a defaultdict(int).
IdentifierRegister(sy, nm) ==
  IF InSymbols(sy, nm)
  THEN [i \in 1..Len(sy) |->
          IF sy[i].name = nm THEN [sy[i] EXCEPT !.count = @ + 1] ELSE sy[i]]
  ELSE Append(sy, [name |-> nm, count |-> 1])

\* LabelNode.register: an entry with count 0 unless the name has one.
LabelRegister(sy, nm) ==
  IF InSymbols(sy, nm) THEN sy ELSE Append(sy, [name |-> nm, count |-> 0])

\* ProcedureNode.register: the parameters under the name, and the name as a
\* symbol with count 0 unless it has one.
ProcedureRegister(ctxt, nm, parameters) ==
  [procedures |-> (nm :> parameters) @@ ctxt.procedures,
   symbols |-> LabelRegister(ctxt.symbols, nm)]

\* The tree: labels, instructions (mnemonic and operands as parsed) and
\* procedure declarations, in one record shape.
Label(nm) ==
  [t |-> "label", name |-> nm, mneumonic |-> "", operands |-> <<>>, parameters |-> <<>>]
Instruction(mneumonic, operands) ==
  [t |-> "instr", name |-> NoName, mneumonic |-> mneumonic, operands |-> operands,
   parameters |-> <<>>]
Procedure(nm, parameters) ==
  [t |-> "proc", name |-> nm, mneumonic |-> "", operands |-> <<>>,
   parameters |-> parameters]

\* The instruction classes that keep InstructionNode.arguments, which is [].
NoArguments == {"push", "pop", "call", "syscall", "ret"}

\* The `arguments` property of an instruction node.
arguments(node) ==
  IF node.mneumonic \in NoArguments THEN <<>> ELSE node.operands

RECURSIVE RegisterArguments(_, _)
\* InstructionNode.register: every argument is registered; only identifiers
\* have a register of their own, the other operands leave the Context alone.
RegisterArguments(sy, args) ==
  IF args = <<>> THEN sy
  ELSE RegisterArguments(
         IF Head(args).k = "id" THEN IdentifierRegister(sy, Head(args).name) ELSE sy,
         Tail(args))

\* node.register(ctxt)
NodeRegister(ctxt, node) ==
  CASE node.t = "label" -> [ctxt EXCEPT !.symbols = LabelRegister(@, node.name)]
    [] node.t = "proc" -> ProcedureRegister(ctxt, node.name, node.parameters)
    [] node.t = "instr" ->
         [ctxt EXCEPT !.symbols = RegisterArguments(@, arguments(node))]

RECURSIVE register(_, _)
\* register(ast, ctxt) over a list of nodes.
register(nodes, ctxt) ==
  IF nodes = <<>> THEN ctxt
  ELSE register(Tail(nodes), NodeRegister(ctxt, Head(nodes)))

startswith(nm, c) == Len(nm) >= 1 /\ nm[1] = c

\* Mutant: `main` is not exempt.
Unused_mainToo(item) == item.count = 0 /\ ~startswith(item.name, "_")

\* The test of Context.validate's loop body: does this item get a warning?
Unused(item) ==
  /\ ~(item.count # 0)
  /\ ~startswith(item.name, "_")
  /\ ~(item.name \in {Name_main})

RECURSIVE validate(_)
\* Context.validate: the names warned about, in the order of the table.
validate(sy) ==
  IF sy = <<>> THEN <<>>
  ELSE (IF Unused(Head(sy)) THEN <<Head(sy).name>> ELSE <<>>) \o validate(Tail(sy))

IsStackPointer(p) == p.k = "ptr" /\ p.reg = sp

\* Mutant: every pointer parameter counts, whatever its base register.
SpillDepth_anyBase(parameters) ==
  Cardinality({i \in 1..Len(parameters) : parameters[i].k = "ptr"})

\* The count of parameters that are pointers based on $sp
\* (CallInstruction.construct line 359, ProcedureNode.construct lines 124-127).
SpillDepth(parameters) ==
  Cardinality({i \in 1..Len(parameters) : IsStackPointer(parameters[i])})

\* ctxt.procedures[name]: the table is a defaultdict(list), so reading a name
\* it does not hold inserts the name with an empty list.
ProceduresGet(procs, proc) ==
  IF proc \in DOMAIN procs THEN procs ELSE (proc :> <<>>) @@ procs

\* CallInstruction.construct, for a name the table does not hold: the list
\* the lookup returns has no `values`, which line 359 calls.
CallInstructionError ==
  Error("AttributeError", "'list' object has no attribute 'values'", NoName)

\* CallInstruction.construct, for a procedure of the table.
CallInstruction(procs, proc) ==
  LET parameters == procs[proc]
      spill_depth == SpillDepth(parameters)
      spilled == spill(<<>>, <<ra>>, spill_depth)
      unspilled == unspill(spilled.stack, FALSE, <<>>)
  IN construct(<<spilled.text, <<JumpAndLinkInstruction(proc)>>, unspilled.text>>)

CommentNode(operands) == Line("#", operands)
LabelNode(nm) == <<Blank, Line(":", <<IdentifierNode(nm)>>)>>

\* ProcedureNode.construct of a procedure without doc comments: a comment
\* line per parameter when there are parameters, the label, the prologue.
ProcedureNode(nm, parameters) ==
  LET doc_comments ==
        IF parameters = <<>> THEN <<Blank>>
        ELSE <<CommentNode(<<>>)>> \o
             [i \in 1..Len(parameters) |-> CommentNode(<<parameters[i]>>)]
      documentation == IF parameters = <<>> THEN <<>> ELSE <<Blank>> \o doc_comments
      label == IF parameters = <<>> THEN LabelNode(nm) ELSE Tail(LabelNode(nm))
      prologue == construct(<<spill(<<>>, PROCEDURE_SPILLS, SpillDepth(parameters)).text>>)
  IN documentation \o label \o prologue

\* ReturnInstruction.construct
ReturnInstruction ==
  construct(<<unspill(<<>>, TRUE, PROCEDURE_SPILLS).text,
              <<JumpRegisterInstruction(ra)>>>>)

\* Mutant: the divide takes its operands the other way round.
ModuloRegisterInstruction_swapped(destination, source, value) ==
  construct(<<
    <<GenericInstruction("div", <<RegisterNode(value), RegisterNode(source)>>)>>,
    <<GenericInstruction("mfhi", <<RegisterNode(destination)>>)>>
  >>)

\* ModuloRegisterInstruction.construct
ModuloRegisterInstruction(destination, source, value) ==
  construct(<<
    <<GenericInstruction("div", <<RegisterNode(source), RegisterNode(value)>>)>>,
    <<GenericInstruction("mfhi", <<RegisterNode(destination)>>)>>
  >>)

\* MultiplyIntegerInstruction.construct
MultiplyIntegerInstruction(destination, source, value) ==
  construct(<<
    <<LoadIntegerInstruction(t9, value)>>,
    <<MultiplyRegisterInstruction(destination, t9, source)>>
  >>)

\* ModuloIntegerInstruction.construct
ModuloIntegerInstruction(destination, source, value) ==
  construct(<<
    <<LoadIntegerInstruction(t9, value)>>,
    ModuloRegisterInstruction(destination, source, t9)
  >>)

\* The instruction nodes of a named syscall between the save and the restore
\* of $v0.  An entry of the table is [id, nl]: the id field of the line of
\* syscalls.txt, and whether it still carries the line's newline (it does
\* when the id is the line's last field); the text of `li` then ends in it.
SyscallBody(entry) ==
  <<  <<LoadIntegerInstruction(v0, entry.id)>> \o (IF entry.nl THEN <<Blank>> ELSE <<>>),
      <<Line("syscall", <<>>)>>,
      <<StoreWordInstruction(IdentifierNode(Name_return), v0)>> >>

\* Mutant: the result is stored once $v0 has been restored.
SyscallLines_storeLate(spilled, body, unspilled) ==
  <<spilled, body[1], body[2], unspilled, body[3]>>

\* The list SyscallInstruction.construct hands to construct (lines 396-402).
SyscallLines(spilled, body, unspilled) ==
  <<spilled, body[1], body[2], body[3], unspilled>>

\* SyscallInstruction.construct with an identifier found in the table:
\* the lines of the text, the blank ones filtered out.
SyscallInstruction(table, nm) ==
  LET spilled == spill(<<>>, <<v0>>, 0)
      unspilled == unspill(spilled.stack, FALSE, <<>>)
      text == construct(SyscallLines(spilled.text, SyscallBody(table[nm]), unspilled.text))
  IN SelectSeq(text, LAMBDA line : line # Blank)

\* SyscallInstruction.construct without an identifier: InstructionNode.construct.
BareSyscall == <<Line("syscall", <<>>)>>

(***************************************************************************)
(* The target machine.  Registers hold integers; memory is word-addressed  *)
(* at multiples of 4; `data` holds the words behind labels.                *)
(***************************************************************************)
RegSeq == <<"$sp", "$ra", "$v0", "$t9", "$t0", "$t1", "$a0",
            "$s0", "$s1", "$s2", "$s3", "$s4", "$s5", "$s6", "$s7">>
Registers == {RegSeq[i] : i \in 1..Len(RegSeq)}
RegIndex(r) == CHOOSE i \in 1..Len(RegSeq) : RegSeq[i] = r

MemWords == SpWord + MaxDepth + 3
Addr == {4 * w : w \in 0..MemWords}
Labels == {Name_return}

\* Every register and every word starts with a value of its own, so that a
\* word moved to the wrong place is told apart from the right one.
RegInit(r) == 100 + RegIndex(r)
MemInit(a) == 200 + (a \div 4)

CpuInit(spWord) ==
  [regs |-> [r \in Registers |-> IF r = sp THEN 4 * spWord ELSE RegInit(r)],
   mem |-> [a \in Addr |-> MemInit(a)],
   hi |-> 0,
   data |-> [l \in Labels |-> 0],
   fault |-> FALSE]

SetReg(M, r, v) == [M EXCEPT !.regs[r] = v]

Load(M, a) == IF a \in Addr THEN M.mem[a] ELSE 0

LoadTo(M, r, a) ==
  IF a \in Addr THEN SetReg(M, r, M.mem[a]) ELSE [M EXCEPT !.fault = TRUE]

StoreAt(M, a, v) ==
  IF a \in Addr THEN [M EXCEPT !.mem[a] = v] ELSE [M EXCEPT !.fault = TRUE]

EffAddr(M, ptr) == M.regs[ptr.reg] + ptr.n

Abs(x) == IF x < 0 THEN -x ELSE x

\* The remainder the `div` instruction leaves in HI: that of the division
\* truncated towards zero, with the sign of the dividend.
Rem(a, b) == IF a >= 0 THEN a % Abs(b) ELSE -((-a) % Abs(b))

\* What the machine does not decide: the result of a syscall or of a callee
\* (left in $v0; a callee also uses the scratch register), and the return
\* address a jal links.  A callee returns with $sp and the stack as it
\* found them.
Env(sysres, link) == [sysres |-> sysres, link |-> link]

\* One line of emitted text, run.
Exec(M, ins, env) ==
  LET a == ins.args IN
  CASE ins.op = "" -> M
    [] ins.op = "addi" -> SetReg(M, a[1].reg, M.regs[a[2].reg] + a[3].n)
    [] ins.op = "li" -> SetReg(M, a[1].reg, a[2].n)
    [] ins.op = "lw" ->
         IF a[2].k = "ptr" THEN LoadTo(M, a[1].reg, EffAddr(M, a[2]))
         ELSE SetReg(M, a[1].reg, M.data[a[2].name])
    [] ins.op = "sw" ->
         IF a[2].k = "ptr" THEN StoreAt(M, EffAddr(M, a[2]), M.regs[a[1].reg])
         ELSE [M EXCEPT !.data[a[2].name] = M.regs[a[1].reg]]
    [] ins.op = "div" ->
         IF M.regs[a[2].reg] = 0 THEN [M EXCEPT !.fault = TRUE]
         ELSE [M EXCEPT !.hi = Rem(M.regs[a[1].reg], M.regs[a[2].reg])]
    [] ins.op = "mfhi" -> SetReg(M, a[1].reg, M.hi)
    [] ins.op = "mul" -> SetReg(M, a[1].reg, M.regs[a[2].reg] * M.regs[a[3].reg])
    [] ins.op = "syscall" -> SetReg(M, v0, env.sysres)
    [] ins.op = "jal" ->
         [M EXCEPT !.regs = [r \in Registers |->
            IF r = ra THEN env.link
            ELSE IF r \in {v0, t9} THEN env.sysres
            ELSE M.regs[r]]]
    [] ins.op = "jr" -> M
    [] OTHER -> M

RECURSIVE Run(_, _, _)
\* The lines of a straight-line text, run in order: the first half, then
\* the second half from where the first left the machine.  An access outside
\* the modelled memory stops the run.
Run(M, text, env) ==
  IF text = <<>> THEN M
  ELSE IF Len(text) = 1 THEN Exec(M, text[1], env)
  ELSE LET h == Len(text) \div 2
           mid == Run(M, SubSeq(text, 1, h), env)
       IN IF mid.fault THEN mid
          ELSE Run(mid, SubSeq(text, h + 1, Len(text)), env)

NoEnv == Env(0, 0)

(***************************************************************************)
(* The spill engine, run: a SpillContext on which groups are spilled and   *)
(* unspilled, and push/pop instructions, with the registers overwritten    *)
(* in between.                                                             *)
(***************************************************************************)
SpillRegs == {"$ra", "$s0", "$t9", "$sp"}
RegLists == UNION {[1..n -> SpillRegs] : n \in 1..MaxLen}
ClobberVals == {0, 7}

NoFrame == [kind |-> "none", registers |-> <<>>, depth |-> 0, before |-> CpuInit(0)]
Frame(kind, registers, depth, before) ==
  [kind |-> kind, registers |-> registers, depth |-> depth, before |-> before]
NoOp == [kind |-> "none", registers |-> <<>>, depth |-> 0, before |-> CpuInit(0),
         frame |-> NoFrame, name |-> NoName, val |-> 0]
Op(kind, registers, depth, before, frame) ==
  [kind |-> kind, registers |-> registers, depth |-> depth, before |-> before,
   frame |-> frame, name |-> NoName, val |-> 0]

Top(s) == s[Len(s)]
Pop(s) == SubSeq(s, 1, Len(s) - 1)
Range(s) == {s[i] : i \in 1..Len(s)}

IdleContext ==
  /\ procedures = <<>>
  /\ symbols = <<>>
  /\ diags = <<>>
  /\ ast = <<>>
  /\ syscalls = <<>>
  /\ err = NoError
  /\ source_text = <<>>
  /\ build_target = NoFile

Init ==
  /\ cpu \in {CpuInit(w) : w \in {SpWord - 1, SpWord}}
  /\ stack = <<>>
  /\ out = <<>>
  /\ pc = "ready"
  /\ hist = <<>>
  /\ last = NoOp
  /\ IdleContext

\* spill(*R, depth=d) on the SpillContext, and its text run.  A further
\* spill, while one is outstanding, is of one register at the same depth
\* (the nested saves of calls within a procedure that has stack parameters).
Spill(R, d) ==
  /\ pc \in {"ready", "spilled"}
  /\ last.kind \in {"none", "spill"}
  /\ Len(hist) < MaxNest
  /\ hist # <<>> =>
       /\ Top(hist).kind = "spill" /\ d = Top(hist).depth /\ d > 0
       /\ Len(R) = 1
       /\ Len(stack) = Len(hist)
  /\ LET res == spill(stack, R, d) IN
       /\ stack' = res.stack
       /\ out' = res.text
       /\ cpu' = Run(cpu, res.text, NoEnv)
       /\ hist' = Append(hist, Frame("spill", R, d, cpu))
       /\ last' = Op("spill", R, d, cpu, NoFrame)
  /\ pc' = "spilled"
  /\ UNCHANGED <<source_text, build_target, procedures, symbols, diags, ast, syscalls, err>>

\* The code between a save and its restore writes the saved registers.
Clobber(f) ==
  /\ pc \in {"spilled", "pushed"}
  /\ Len(hist) = 1
  /\ last.kind \in {"spill", "push"}
  /\ cpu' = [cpu EXCEPT !.regs = [r \in Registers |->
                IF r \in DOMAIN f THEN f[r] ELSE cpu.regs[r]]]
  /\ last' = [last EXCEPT !.kind = "clobber"]
  /\ UNCHANGED <<source_text, build_target, stack, procedures, symbols, out, diags, pc, hist, ast, syscalls, err>>

\* unspill() on the SpillContext: the most recent group is popped.
Unspill ==
  /\ pc = "spilled"
  /\ stack # <<>>
  /\ LET res == unspill(stack, FALSE, <<>>)
         frame == IF hist # <<>> THEN Top(hist) ELSE NoFrame
     IN
       /\ stack' = res.stack
       /\ out' = res.text
       /\ cpu' = Run(cpu, res.text, NoEnv)
       /\ hist' = IF hist # <<>> THEN Pop(hist) ELSE hist
       /\ last' = Op("unspill", Top(stack), 0, cpu, frame)
       /\ pc' = IF res.stack = <<>> THEN "done" ELSE "spilled"
  /\ UNCHANGED <<source_text, build_target, procedures, symbols, diags, ast, syscalls, err>>

\* push r
Push(r) ==
  /\ pc = "ready"
  /\ hist = <<>>
  /\ LET text == PushInstuction(r) IN
       /\ out' = text
       /\ cpu' = Run(cpu, text, NoEnv)
       /\ hist' = <<Frame("push", <<r>>, 0, cpu)>>
       /\ last' = Op("push", <<r>>, 0, cpu, NoFrame)
  /\ pc' = "pushed"
  /\ UNCHANGED <<source_text, build_target, stack, procedures, symbols, diags, ast, syscalls, err>>

\* pop r, and pop without an operand
PopTo(hasDestination, r) ==
  /\ pc = "pushed"
  /\ hist # <<>>
  /\ LET text == PopInstruction(hasDestination, r) IN
       /\ out' = text
       /\ cpu' = Run(cpu, text, NoEnv)
       /\ hist' = Pop(hist)
       /\ last' = Op(IF hasDestination THEN "pop" ELSE "drop", <<r>>, 0, cpu, Top(hist))
  /\ pc' = "popped"
  /\ UNCHANGED <<source_text, build_target, stack, procedures, symbols, diags, ast, syscalls, err>>

Next ==
  \/ \E R \in RegLists, d \in 0..MaxDepth : Spill(R, d)
  \/ \E S \in SUBSET (SpillRegs \ {sp}) : S # {} /\ \E f \in [S -> ClobberVals] : Clobber(f)
  \/ Unspill
  \/ \E r \in SpillRegs : Push(r)
  \/ \E r \in SpillRegs, b \in BOOLEAN : PopTo(b, r)

Spec == Init /\ [][Next]_vars

(***************************************************************************)
(* C1 Spill/unspill round trip at depth 0: unspill after spill(R, depth=0) *)
(* of a non-empty R, and pop r after push r, leave $sp and every register  *)
(* of R at their values before the spill, whatever was written to the      *)
(* registers of R in between.                                              *)
(***************************************************************************)
RoundTripCase ==
  \/ last.kind = "unspill" /\ last.frame.kind = "spill" /\ last.frame.depth = 0
  \/ last.kind = "pop" /\ last.frame.kind = "push"
       /\ last.registers = last.frame.registers

SpillUnspillRoundTrip ==
  RoundTripCase =>
    /\ ~cpu.fault
    /\ cpu.regs[sp] = last.frame.before.regs[sp]
    /\ \A r \in Range(last.frame.registers) :
         cpu.regs[r] = last.frame.before.regs[r]

\* A list of two registers came back after both had been overwritten.
SpillUnspillRoundTripWitness ==
  /\ RoundTripCase
  /\ last.kind = "unspill"
  /\ Len(last.frame.registers) = 2
  /\ last.frame.registers[1] # last.frame.registers[2]
  /\ \A r \in Range(last.frame.registers) : last.before.regs[r] \in ClobberVals
  /\ \A r \in Range(last.frame.registers) : cpu.regs[r] = RegInit(r)

(***************************************************************************)
(* C2 Depth preservation: after spill([r], depth=k), k >= 1, the k words   *)
(* that sat at offsets 4..4k from $sp are read unchanged at offsets 4..4k  *)
(* from the new $sp, $sp is 4 lower, and r's value from before the spill   *)
(* is at offset 4(k+1).                                                    *)
(***************************************************************************)
DepthCase == last.kind = "spill" /\ Len(last.registers) = 1 /\ last.depth >= 1

DepthPreserved ==
  LET k == last.depth
      r == last.registers[1]
      b == last.before
  IN /\ ~cpu.fault
     /\ cpu.regs[sp] = b.regs[sp] - 4
     /\ \A j \in 1..k : Load(cpu, cpu.regs[sp] + 4 * j) = Load(b, b.regs[sp] + 4 * j)
     /\ Load(cpu, cpu.regs[sp] + 4 * (k + 1)) = b.regs[r]

\* As claimed: for every register r.
DepthPreservationEveryRegister == DepthCase => DepthPreserved

\* As amended: for every register r other than the scratch register $t9 and $sp.
DepthPreservation ==
  (DepthCase /\ last.registers[1] \notin {t9, sp}) => DepthPreserved

DepthPreservationWitness ==
  /\ DepthCase
  /\ last.depth = 2
  /\ last.registers = <<ra>>
  /\ Load(cpu, cpu.regs[sp] + 12) = RegInit(ra)
  /\ Load(cpu, cpu.regs[sp] + 4) = MemInit(last.before.regs[sp] + 4)

(***************************************************************************)
(* Procedures: procedures are registered, then either a call to one is     *)
(* lowered and run, or the prologue of one, a body and a `ret`.            *)
(***************************************************************************)
MaxParams == 2   \* most parameters of a procedure

ParamOperands ==
  {RegisterNode("$a0"), PointerNode(sp, 4), PointerNode(sp, 8), PointerNode("$t0", 4)}
ParamLists == UNION {[1..n -> ParamOperands] : n \in 0..MaxParams}
CalleeSaved == Range(PROCEDURE_SPILLS)

InitProc ==
  /\ cpu \in {CpuInit(w) : w \in {SpWord - 1, SpWord}}
  /\ stack = <<>>
  /\ out = <<>>
  /\ pc = "register"
  /\ hist = <<>>
  /\ last = NoOp
  /\ IdleContext

\* The registration pass meets `proc name(parameters):`.
RegisterProcedure(nm, parameters) ==
  /\ pc = "register"
  /\ nm \notin DOMAIN procedures
  /\ LET ctxt == ProcedureRegister([procedures |-> procedures, symbols |-> symbols],
                                   nm, parameters)
     IN /\ procedures' = ctxt.procedures
        /\ symbols' = ctxt.symbols
  /\ UNCHANGED <<source_text, build_target, cpu, stack, out, diags, pc, hist, last, ast, syscalls, err>>

\* `call nm` is lowered and its text run; the callee returns to `link` with
\* $sp and the stack as it found them, and `result` in the registers a
\* callee may use freely.
Call(nm, link, result) ==
  /\ pc = "register"
  /\ nm \in DOMAIN procedures
  /\ LET text == CallInstruction(procedures, nm)
         callee == [sysres |-> result, link |-> link]
     IN /\ out' = text
        /\ cpu' = Run(cpu, text, callee)
  /\ last' = [Op("call", <<ra>>, SpillDepth(procedures[nm]), cpu, NoFrame)
                EXCEPT !.name = nm]
  /\ pc' = "called"
  /\ UNCHANGED <<source_text, build_target, stack, procedures, symbols, diags, hist, ast, syscalls, err>>

\* `call nm` is lowered when the table holds no procedure nm.
CallUnknown(nm) ==
  /\ pc = "register"
  /\ nm \notin DOMAIN procedures
  /\ procedures' = ProceduresGet(procedures, nm)
  /\ err' = CallInstructionError
  /\ last' = [Op("callfail", <<ra>>, 0, cpu, NoFrame) EXCEPT !.name = nm]
  /\ pc' = "failed"
  /\ UNCHANGED <<source_text, build_target, cpu, stack, symbols, out, diags, hist, ast, syscalls>>

\* Control enters procedure nm: its prologue runs.
Prologue(nm) ==
  /\ pc = "register"
  /\ nm \in DOMAIN procedures
  /\ LET text == ProcedureNode(nm, procedures[nm]) IN
        /\ out' = text
        /\ cpu' = Run(cpu, text, NoEnv)
  /\ hist' = <<Frame("proc", PROCEDURE_SPILLS, SpillDepth(procedures[nm]), cpu)>>
  /\ last' = [Op("prologue", PROCEDURE_SPILLS, SpillDepth(procedures[nm]), cpu, NoFrame)
                EXCEPT !.name = nm]
  /\ pc' = "body"
  /\ UNCHANGED <<source_text, build_target, stack, procedures, symbols, diags, ast, syscalls, err>>

\* The body writes callee-saved registers; it leaves $sp and the stack.
Body(f) ==
  /\ pc = "body"
  /\ last.kind = "prologue"
  /\ cpu' = [cpu EXCEPT !.regs = [r \in Registers |->
                IF r \in DOMAIN f THEN f[r] ELSE cpu.regs[r]]]
  /\ last' = [last EXCEPT !.kind = "body"]
  /\ UNCHANGED <<source_text, build_target, stack, procedures, symbols, out, diags, pc, hist, ast, syscalls, err>>

\* `ret` is lowered and run.
Return ==
  /\ pc = "body"
  /\ LET text == ReturnInstruction IN
        /\ out' = text
        /\ cpu' = Run(cpu, text, NoEnv)
  /\ hist' = <<>>
  /\ last' = [Op("ret", PROCEDURE_SPILLS, Top(hist).depth, cpu, Top(hist))
                EXCEPT !.name = last.name]
  /\ pc' = "returned"
  /\ UNCHANGED <<source_text, build_target, stack, procedures, symbols, diags, ast, syscalls, err>>

NextProc ==
  \/ \E parameters \in ParamLists : RegisterProcedure(Name_foo, parameters)
  \/ RegisterProcedure(Name_main, <<>>)
  \/ \E nm \in {Name_foo, Name_main}, link \in {900, 904}, result \in {0, 7} :
       Call(nm, link, result)
  \/ \E nm \in {Name_foo, Name_main, Name_bar} : CallUnknown(nm)
  \/ \E nm \in {Name_foo, Name_main} : Prologue(nm)
  \/ \E f \in [{"$s0", "$s7"} -> ClobberVals] : Body(f)
  \/ Return

SpecProc == InitProc /\ [][NextProc]_vars

(***************************************************************************)
(* C3 Call return-address preservation: after the text of `call proc` has  *)
(* run, for a procedure of spill depth d, $ra and $sp are what they were   *)
(* before it and the d parameter words at offsets 4..4d are unchanged.     *)
(***************************************************************************)
CallPreservesReturnAddress ==
  last.kind = "call" =>
    /\ ~cpu.fault
    /\ cpu.regs[ra] = last.before.regs[ra]
    /\ cpu.regs[sp] = last.before.regs[sp]
    /\ \A j \in 1..last.depth :
         Load(cpu, cpu.regs[sp] + 4 * j)
           = Load(last.before, last.before.regs[sp] + 4 * j)

(***************************************************************************)
(* C4 Callee-saved preservation: after prologue, body and `ret` of a       *)
(* procedure with k stack parameters, $sp and $s0..$s7 are what they were  *)
(* at procedure entry.                                                     *)
(***************************************************************************)
CalleeSavedPreserved ==
  last.kind = "ret" =>
    /\ ~cpu.fault
    /\ cpu.regs[sp] = last.frame.before.regs[sp]
    /\ \A r \in CalleeSaved : cpu.regs[r] = last.frame.before.regs[r]

(***************************************************************************)
(* C5 Parameters stay addressable across the prologue: the word read       *)
(* through a parameter's operand offset($sp) right after the prologue is   *)
(* the word it read right before, for every declared offset.               *)
(***************************************************************************)
ParametersAddressable ==
  last.kind = "prologue" =>
    \A i \in 1..Len(procedures[last.name]) :
      LET p == procedures[last.name][i] IN
        IsStackPointer(p) =>
          Load(cpu, EffAddr(cpu, p)) = Load(last.before, EffAddr(last.before, p))

(***************************************************************************)
(* C6 Call spill depth: the text of `call proc` holds one load/store shift *)
(* pair through $t9 per declared parameter that is a pointer on $sp, and   *)
(* none for register parameters and pointers on other bases.               *)
(***************************************************************************)
RECURSIVE StackParams(_)
StackParams(parameters) ==
  IF parameters = <<>> THEN 0
  ELSE (IF Head(parameters).k = "ptr" /\ Head(parameters).reg = "$sp" THEN 1 ELSE 0)
       + StackParams(Tail(parameters))

IsShiftLoad(l) == l.op = "lw" /\ l.args[1] = RegisterNode("$t9")
IsShiftStore(l) == l.op = "sw" /\ l.args[1] = RegisterNode("$t9")
ShiftPairs(text) ==
  Cardinality({i \in 1..(Len(text) - 1) : IsShiftLoad(text[i]) /\ IsShiftStore(text[i + 1])})

CallSpillDepth ==
  last.kind = "call" =>
    LET d == StackParams(procedures[last.name]) IN
      /\ ShiftPairs(out) = d
      /\ Len(out) = 2 * d + 5
      /\ out[2 * d + 2] = StoreWordInstruction(PointerNode("$sp", 4 * (d + 1)), "$ra")

CallSpillDepthWitness ==
  /\ last.kind = "call"
  /\ procedures[last.name] = <<RegisterNode("$a0"), PointerNode("$sp", 4)>>
  /\ ShiftPairs(out) = 1

(***************************************************************************)
(* C11 Unknown call target: lowering `call p` with p not in the procedure  *)
(* table fails with an error whose message names p, produces no text, and  *)
(* leaves the procedure table without an entry for p.                      *)
(***************************************************************************)
UnknownCallTarget ==
  last.kind = "callfail" =>
    /\ err # NoError
    /\ err.name = last.name
    /\ out = <<>>
    /\ last.name \notin DOMAIN procedures

(***************************************************************************)
(* The build of one unit (build_file): the tree is registered, then the    *)
(* Context is validated.                                                   *)
(***************************************************************************)
MaxNodes == 3   \* most nodes of a tree

NodeUniverse ==
  {Label(Name_foo), Label(Name_main), Label(Name_tmp),
   Procedure(Name_foo, <<>>),
   Instruction("j", <<IdentifierNode(Name_foo)>>),
   Instruction("call", <<IdentifierNode(Name_foo)>>),
   Instruction("la", <<RegisterNode("$a0"), IdentifierNode(Name_bar)>>),
   Instruction("syscall", <<IdentifierNode(Name_print_int)>>)}
Trees == UNION {[1..n -> NodeUniverse] : n \in 0..MaxNodes}
AllNames == {Name_foo, Name_bar, Name_main, Name_tmp, Name_print_int}

InitBuild ==
  /\ cpu = CpuInit(SpWord)
  /\ stack = <<>>
  /\ out = <<>>
  /\ pc = "parsed"
  /\ hist = <<>>
  /\ last = NoOp
  /\ procedures = <<>>
  /\ symbols = <<>>
  /\ diags = <<>>
  /\ ast \in Trees
  /\ syscalls = <<>>
  /\ err = NoError
  /\ source_text = <<>>
  /\ build_target = NoFile

\* context = register(ast)
Register ==
  /\ pc = "parsed"
  /\ LET ctxt == register(ast, [procedures |-> <<>>, symbols |-> <<>>]) IN
       /\ procedures' = ctxt.procedures
       /\ symbols' = ctxt.symbols
  /\ pc' = "registered"
  /\ UNCHANGED <<source_text, build_target, cpu, stack, out, diags, hist, last, ast, syscalls, err>>

\* context.validate()
Validate ==
  /\ pc = "registered"
  /\ diags' = diags \o validate(symbols)
  /\ pc' = "validated"
  /\ UNCHANGED <<source_text, build_target, cpu, stack, procedures, symbols, out, hist, last, ast, syscalls, err>>

NextBuild == Register \/ Validate

SpecBuild == InitBuild /\ [][NextBuild]_vars

RECURSIVE OccursIn(_, _)
\* How often the identifier nm is among the operands.
OccursIn(operands, nm) ==
  IF operands = <<>> THEN 0
  ELSE (IF Head(operands) = IdentifierNode(nm) THEN 1 ELSE 0) + OccursIn(Tail(operands), nm)

RECURSIVE Occurrences(_, _)
\* How often nm is an operand of an instruction of the tree.
Occurrences(nodes, nm) ==
  IF nodes = <<>> THEN 0
  ELSE (IF Head(nodes).t = "instr" THEN OccursIn(Head(nodes).operands, nm) ELSE 0)
       + Occurrences(Tail(nodes), nm)

Warnings(nm) == Cardinality({i \in 1..Len(diags) : diags[i] = nm})

IsCalled(nm) ==
  \E i \in 1..Len(ast) :
    ast[i].t = "instr" /\ ast[i].mneumonic = "call"
      /\ ast[i].operands = <<IdentifierNode(nm)>>

(***************************************************************************)
(* C7 Registration counts every identifier operand: after registration the *)
(* counter of every identifier is the number of times it is an operand of  *)
(* an instruction of the tree, `call` included; a procedure that is called *)
(* has a counter >= 1 and gets no unused diagnostic.                       *)
(***************************************************************************)
RegistrationCountsEveryOperand ==
  /\ pc \in {"registered", "validated"} =>
       \A nm \in AllNames : Count(symbols, nm) = Occurrences(ast, nm)
  /\ pc = "validated" =>
       \A nm \in DOMAIN procedures :
         IsCalled(nm) => Count(symbols, nm) >= 1 /\ Warnings(nm) = 0

(***************************************************************************)
(* C8 Unused-symbol diagnostic: validation warns exactly once about every  *)
(* symbol of the table with count 0 whose name neither starts with `_` nor *)
(* is `main`, about no other name, and raises nothing.                     *)
(***************************************************************************)
UnusedSymbolDiagnostic ==
  pc = "validated" =>
    /\ err = NoError
    /\ \A nm \in AllNames :
         Warnings(nm) =
           IF /\ InSymbols(symbols, nm)
              /\ Count(symbols, nm) = 0
              /\ nm[1] # "_"
              /\ nm # Name_main
           THEN 1 ELSE 0
    /\ \A i \in 1..Len(diags) : diags[i] \in AllNames

UnusedSymbolDiagnosticWitness ==
  /\ pc = "validated"
  /\ InSymbols(symbols, Name_main) /\ Count(symbols, Name_main) = 0
  /\ InSymbols(symbols, Name_tmp) /\ Count(symbols, Name_tmp) = 0
  /\ diags = <<Name_foo>>

(***************************************************************************)
(* Single instructions, lowered and run: named and bare syscalls, and the  *)
(* modulo pseudo-instructions on operands the program has loaded.          *)
(***************************************************************************)
ArgRegs == {"$t0", "$t1", "$t9"}
Vals == (-MaxVal)..MaxVal
SyscallTables ==
  {(Name_print_int :> [id |-> 1, nl |-> a]) @@ (Name_halt :> [id |-> 10, nl |-> b]) :
     a, b \in BOOLEAN}

InitInstr ==
  /\ cpu = CpuInit(SpWord)
  /\ stack = <<>>
  /\ out = <<>>
  /\ pc = "ready"
  /\ hist = <<>>
  /\ last = NoOp
  /\ procedures = <<>>
  /\ symbols = <<>>
  /\ diags = <<>>
  /\ ast = <<>>
  /\ syscalls \in SyscallTables
  /\ err = NoError
  /\ source_text = <<>>
  /\ build_target = NoFile

\* `syscall nm` with nm in the table; the system call leaves `result` in $v0.
SyscallNamed(nm, result) ==
  /\ pc = "ready"
  /\ nm \in DOMAIN syscalls
  /\ LET text == SyscallInstruction(syscalls, nm) IN
       /\ out' = text
       /\ cpu' = Run(cpu, text, Env(result, 0))
  /\ last' = [Op("syscall", <<v0>>, 0, cpu, NoFrame) EXCEPT !.name = nm, !.val = result]
  /\ pc' = "ran"
  /\ UNCHANGED <<source_text, build_target, stack, procedures, symbols, diags, hist, ast, syscalls, err>>

\* `syscall nm` with nm not in the table: ValueError('Unknown syscall ...').
SyscallUnknown(nm) ==
  /\ pc = "ready"
  /\ nm \notin DOMAIN syscalls
  /\ err' = Error("ValueError", "Unknown syscall", nm)
  /\ pc' = "failed"
  /\ UNCHANGED <<source_text, build_target, cpu, stack, procedures, symbols, out, diags, hist, last, ast, syscalls>>

\* `syscall`
SyscallBare(result) ==
  /\ pc = "ready"
  /\ out' = BareSyscall
  /\ cpu' = Run(cpu, BareSyscall, Env(result, 0))
  /\ last' = [Op("bare", <<v0>>, 0, cpu, NoFrame) EXCEPT !.val = result]
  /\ pc' = "ran"
  /\ UNCHANGED <<source_text, build_target, stack, procedures, symbols, diags, hist, ast, syscalls, err>>

\* The program leaves the value a in the register it will use as source.
SetSource(s, a) ==
  /\ pc = "ready"
  /\ cpu' = SetReg(cpu, s, a)
  /\ last' = Op("source", <<s>>, 0, cpu, NoFrame)
  /\ pc' = "source"
  /\ UNCHANGED <<source_text, build_target, stack, procedures, symbols, out, diags, hist, ast, syscalls, err>>

\* ... and the value b in the register it will use as third operand.
SetValue(v, b) ==
  /\ pc = "source"
  /\ cpu' = SetReg(cpu, v, b)
  /\ last' = Op("value", last.registers \o <<v>>, 0, cpu, NoFrame)
  /\ pc' = "value"
  /\ UNCHANGED <<source_text, build_target, stack, procedures, symbols, out, diags, hist, ast, syscalls, err>>

\* mod d, s, v
ModuloRegister(d) ==
  /\ pc = "value"
  /\ LET text == ModuloRegisterInstruction(d, last.registers[1], last.registers[2]) IN
       /\ out' = text
       /\ cpu' = Run(cpu, text, NoEnv)
  /\ last' = Op("mod", <<d>> \o last.registers, 0, cpu, NoFrame)
  /\ pc' = "ran"
  /\ UNCHANGED <<source_text, build_target, stack, procedures, symbols, diags, hist, ast, syscalls, err>>

\* modi d, s, imm
ModuloInteger(d, imm) ==
  /\ pc = "source"
  /\ LET text == ModuloIntegerInstruction(d, last.registers[1], imm) IN
       /\ out' = text
       /\ cpu' = Run(cpu, text, NoEnv)
  /\ last' = [Op("modi", <<d>> \o last.registers, 0, cpu, NoFrame) EXCEPT !.val = imm]
  /\ pc' = "ran"
  /\ UNCHANGED <<source_text, build_target, stack, procedures, symbols, diags, hist, ast, syscalls, err>>

\* muli d, s, imm
MultiplyInteger(d, imm) ==
  /\ pc = "source"
  /\ LET text == MultiplyIntegerInstruction(d, last.registers[1], imm) IN
       /\ out' = text
       /\ cpu' = Run(cpu, text, NoEnv)
  /\ last' = [Op("muli", <<d>> \o last.registers, 0, cpu, NoFrame) EXCEPT !.val = imm]
  /\ pc' = "ran"
  /\ UNCHANGED <<source_text, build_target, stack, procedures, symbols, diags, hist, ast, syscalls, err>>

NextInstr ==
  \/ \E nm \in {Name_print_int, Name_halt, Name_foo}, result \in Vals :
       SyscallNamed(nm, result)
  \/ \E nm \in {Name_print_int, Name_halt, Name_foo} : SyscallUnknown(nm)
  \/ \E result \in Vals : SyscallBare(result)
  \/ \E s \in ArgRegs, a \in Vals : SetSource(s, a)
  \/ \E v \in ArgRegs, b \in Vals : SetValue(v, b)
  \/ \E d \in ArgRegs : ModuloRegister(d)
  \/ \E d \in ArgRegs, imm \in Vals : ModuloInteger(d, imm)
  \/ \E d \in ArgRegs, imm \in Vals : MultiplyInteger(d, imm)

SpecInstr == InitInstr /\ [][NextInstr]_vars

(***************************************************************************)
(* C9 Named syscall lowering: `syscall name`, name in the table with id n, *)
(* lowers to exactly: addi $sp,$sp,-4; sw $v0,4($sp); li $v0,n; syscall;   *)
(* sw $v0,_return; lw $v0,4($sp); addi $sp,$sp,4, with no blank line; run, *)
(* it leaves $sp and $v0 as they were and the syscall's result in _return. *)
(***************************************************************************)
NamedSyscallLowering ==
  last.kind = "syscall" =>
    /\ out = << Line("addi", <<RegisterNode("$sp"), RegisterNode("$sp"), NumberNode(-4)>>),
                Line("sw", <<RegisterNode("$v0"), PointerNode("$sp", 4)>>),
                Line("li", <<RegisterNode("$v0"), NumberNode(syscalls[last.name].id)>>),
                Line("syscall", <<>>),
                Line("sw", <<RegisterNode("$v0"), IdentifierNode(Name_return)>>),
                Line("lw", <<RegisterNode("$v0"), PointerNode("$sp", 4)>>),
                Line("addi", <<RegisterNode("$sp"), RegisterNode("$sp"), NumberNode(4)>>) >>
    /\ \A i \in 1..Len(out) : out[i].op # ""
    /\ ~cpu.fault
    /\ cpu.regs["$sp"] = last.before.regs["$sp"]
    /\ cpu.regs["$v0"] = last.before.regs["$v0"]
    /\ cpu.data[Name_return] = last.val

\* print_int, read from a line that ends after the id, returned 5.
NamedSyscallLoweringWitness ==
  /\ last.kind = "syscall"
  /\ last.name = Name_print_int
  /\ syscalls[Name_print_int].nl
  /\ last.val = 5
  /\ cpu.data[Name_return] = 5
  /\ cpu.regs["$v0"] = RegInit("$v0")

(***************************************************************************)
(* C10 Modulo emulation: `mod dest, src, reg` lowers to `div src, reg`     *)
(* then `mfhi dest` and leaves dest = a mod b for a in src, b # 0 in reg;  *)
(* `modi dest, src, imm` loads imm into $t9 and gives the same with        *)
(* b = imm.                                                                *)
(***************************************************************************)
\* a mod b as the floor of the quotient defines it (the sign of b).
FloorMod(a, b) == IF b > 0 THEN a % b ELSE -((-a) % (-b))

\* The quotient truncated towards zero, and the remainder it leaves.
Quotient(a, b) ==
  LET q == Abs(a) \div Abs(b) IN IF (a < 0) = (b < 0) THEN q ELSE -q
Remainder(a, b) == a - b * Quotient(a, b)

\* The operation just run, the value `dividend` in src when the divide runs,
\* the divisor, and the result `result` defines for them.
ModLowered(result(_, _), dividend(_)) ==
  LET d == last.registers[1]
      s == last.registers[2]
  IN /\ last.kind = "mod" /\ last.before.regs[last.registers[3]] # 0 =>
          /\ out = << Line("div", <<RegisterNode(s), RegisterNode(last.registers[3])>>),
                      Line("mfhi", <<RegisterNode(d)>>) >>
          /\ ~cpu.fault
          /\ cpu.regs[d] = result(last.before.regs[s], last.before.regs[last.registers[3]])
     /\ last.kind = "modi" /\ last.val # 0 =>
          /\ out = << Line("li", <<RegisterNode("$t9"), NumberNode(last.val)>>),
                      Line("div", <<RegisterNode(s), RegisterNode("$t9")>>),
                      Line("mfhi", <<RegisterNode(d)>>) >>
          /\ ~cpu.fault
          /\ cpu.regs[d] = result(dividend(s), last.val)

\* As claimed: a mod b with a the value src held, for every src.
ModuloEmulationAsClaimed ==
  ModLowered(FloorMod, LAMBDA s : last.before.regs[s])

\* As amended: the remainder of the division truncated towards zero (it has
\* the sign of a, and is a mod b when a >= 0 and b > 0); for modi the
\* dividend is what src holds once imm is in $t9, imm itself when src is $t9.
ModuloEmulation ==
  ModLowered(Remainder, LAMBDA s : IF s = "$t9" THEN last.val ELSE last.before.regs[s])

\* mod $t0, $t1, $t9 with 7 and 3 left 1 in $t0.
ModuloEmulationWitness ==
  /\ last.kind = "mod"
  /\ last.registers = <<"$t0", "$t1", "$t9">>
  /\ last.before.regs["$t1"] = 7
  /\ last.before.regs["$t9"] = 3
  /\ cpu.regs["$t0"] = 1
  /\ FloorMod(7, 3) = 1

(***************************************************************************)
(* Node construction (InstructionNode.parse and the parse_arguments of the *)
(* instruction classes).  The parser hands over the mnemonic and the list  *)
(* of operands it read; the result is a node or an exception.              *)
(***************************************************************************)
MaxOperands == 4   \* most operands written after a mnemonic

\* The classes that read arguments[0] and look at nothing else.
FirstOnly ==
  [j |-> {"id"}, jal |-> {"id"}, jr |-> {"reg"}, push |-> {"reg"}, call |-> {"id"}]

\* The classes that return cls() for an empty list, and else read arguments[0].
FirstIfAny == [pop |-> {"reg"}, syscall |-> {"id"}]

\* The classes that unpack the list into as many names as they have fields.
Unpacked ==
  [li |-> <<{"reg"}, {"num"}>>,
   lw |-> <<{"reg"}, {"ptr", "id"}>>,
   sw |-> <<{"reg"}, {"ptr", "id"}>>,
   move |-> <<{"reg"}, {"reg"}>>,
   addi |-> <<{"reg"}, {"reg"}, {"num"}>>,
   muli |-> <<{"reg"}, {"reg"}, {"num"}>>,
   modi |-> <<{"reg"}, {"reg"}, {"num"}>>,
   mul |-> <<{"reg"}, {"reg"}, {"reg"}>>,
   mod |-> <<{"reg"}, {"reg"}, {"reg"}>>]

\* InstructionNode._subclasses, the recognized mnemonics.
Subclasses == DOMAIN FirstOnly \cup DOMAIN FirstIfAny \cup DOMAIN Unpacked \cup {"ret"}

Parsed(node) == [err |-> NoError, node |-> <<node>>]
Raised(e) == [err |-> e, node |-> <<>>]

\* parse_arguments of a class that reads arguments[0].
ParseFirst(mneumonic, kinds, args) ==
  IF Len(args) = 0 THEN Raised(Error("IndexError", "list index out of range", NoName))
  ELSE IF args[1].k \notin kinds
       THEN Raised(Error("ValueError", "expected another kind of argument", NoName))
       ELSE Parsed(Instruction(mneumonic, <<args[1]>>))

\* parse_arguments of a class that unpacks the list.
ParseUnpacked(mneumonic, kinds, args) ==
  IF Len(args) < Len(kinds)
  THEN Raised(Error("ValueError", "not enough values to unpack", NoName))
  ELSE IF Len(args) > Len(kinds)
  THEN Raised(Error("ValueError", "too many values to unpack", NoName))
  ELSE IF \E i \in 1..Len(kinds) : args[i].k \notin kinds[i]
  THEN Raised(Error("ValueError", "expected another kind of argument", NoName))
  ELSE Parsed(Instruction(mneumonic, args))

\* InstructionNode.parse: the class of the mnemonic, GenericInstruction for
\* a mnemonic that has none, and that class's parse_arguments.
parse_arguments(mneumonic, args) ==
  IF mneumonic \in DOMAIN FirstOnly THEN ParseFirst(mneumonic, FirstOnly[mneumonic], args)
  ELSE IF mneumonic \in DOMAIN FirstIfAny
  THEN IF Len(args) = 0 THEN Parsed(Instruction(mneumonic, <<>>))
       ELSE ParseFirst(mneumonic, FirstIfAny[mneumonic], args)
  ELSE IF mneumonic \in DOMAIN Unpacked
  THEN ParseUnpacked(mneumonic, Unpacked[mneumonic], args)
  ELSE IF mneumonic = "ret" THEN Parsed(Instruction(mneumonic, <<>>))
  ELSE Parsed(Instruction(mneumonic, args))

\* A character no token matches, as an item of the source.
BadToken == [t |-> "bad", name |-> NoName, mneumonic |-> "", operands |-> <<>>,
             parameters |-> <<>>]

RECURSIVE parse(_, _)
\* parse(lex(source)): the items are read in order, statements are built as
\* they are reduced, and the first exception ends the parse.
parse(items, nodes) ==
  IF items = <<>> THEN [err |-> NoError, ast |-> nodes]
  ELSE LET item == Head(items) IN
       IF item.t = "bad"
       THEN [err |-> Error("LexingError", "", NoName), ast |-> <<>>]
       ELSE IF item.t = "instr"
       THEN LET res == parse_arguments(item.mneumonic, item.operands) IN
            IF res.err # NoError THEN [err |-> res.err, ast |-> <<>>]
            ELSE parse(Tail(items), nodes \o res.node)
       ELSE parse(Tail(items), Append(nodes, item))

\* The operands a statement may hold: one of each kind.
OperandUniverse ==
  {RegisterNode("$t0"), NumberNode(5), IdentifierNode(Name_foo), PointerNode(sp, 4)}
OperandLists == UNION {[1..n -> OperandUniverse] : n \in 0..MaxOperands}

InitParse ==
  /\ cpu = CpuInit(SpWord)
  /\ stack = <<>>
  /\ out = <<>>
  /\ pc = "source"
  /\ hist = <<>>
  /\ last = NoOp
  /\ procedures = <<>>
  /\ symbols = <<>>
  /\ diags = <<>>
  /\ ast = <<>>
  /\ syscalls = <<>>
  /\ err = NoError
  /\ source_text \in {<<Instruction(m, ops)>> : m \in Subclasses \cup {"la"}, ops \in OperandLists}
  /\ build_target = NoFile

\* ast = parse(lex(source)) returns the tree.
Parse ==
  /\ pc = "source"
  /\ parse(source_text, <<>>).err = NoError
  /\ ast' = parse(source_text, <<>>).ast
  /\ pc' = "parsed"
  /\ UNCHANGED <<source_text, build_target, cpu, stack, procedures, symbols, out, diags, hist, last, syscalls, err>>

\* ast = parse(lex(source)) raises.
ParseRaises ==
  /\ pc = "source"
  /\ parse(source_text, <<>>).err # NoError
  /\ err' = parse(source_text, <<>>).err
  /\ pc' = "failed"
  /\ UNCHANGED <<source_text, build_target, cpu, stack, procedures, symbols, out, diags, hist, last, ast, syscalls>>

NextParse == Parse \/ ParseRaises

SpecParse == InitParse /\ [][NextParse]_vars

(***************************************************************************)
(* C12 Shape errors fail at construction: for every recognized mnemonic,   *)
(* an operand list with an operand of the wrong kind or with too few or    *)
(* too many operands raises when the node is built, and no node is built.  *)
(***************************************************************************)
\* The fields the instruction classes declare, as the kinds they admit;
\* pop and syscall have one field that may be absent.
Fields(m) ==
  CASE m \in {"j", "jal", "call"} -> <<{"id"}>>
    [] m \in {"jr", "push"} -> <<{"reg"}>>
    [] m = "li" -> <<{"reg"}, {"num"}>>
    [] m \in {"lw", "sw"} -> <<{"reg"}, {"ptr", "id"}>>
    [] m = "move" -> <<{"reg"}, {"reg"}>>
    [] m \in {"addi", "muli", "modi"} -> <<{"reg"}, {"reg"}, {"num"}>>
    [] m \in {"mul", "mod"} -> <<{"reg"}, {"reg"}, {"reg"}>>
    [] m = "pop" -> <<{"reg"}>>
    [] m = "syscall" -> <<{"id"}>>
    [] m = "ret" -> <<>>
Optional(m) == m \in {"pop", "syscall"}

WellShaped(m, ops) ==
  \/ Optional(m) /\ ops = <<>>
  \/ /\ Len(ops) = Len(Fields(m))
     /\ \A i \in 1..Len(ops) : ops[i].k \in Fields(m)[i]

Statement == source_text[1]

ShapeErrorsFailAtConstruction ==
  (/\ pc # "source"
   /\ Statement.mneumonic \in Subclasses
   /\ ~WellShaped(Statement.mneumonic, Statement.operands))
  => /\ pc = "failed"
     /\ err # NoError
     /\ ast = <<>>

(***************************************************************************)
(* Code generation of a tree: construct(ast, ctxt) over nodes, any of      *)
(* which may raise, and the text section that holds the statements.        *)
(***************************************************************************)
\* The result of constructing a node: the exception raised or the text,
\* and the procedure table as the lookups left it.
Built(text, procs) == [err |-> NoError, text |-> text, procedures |-> procs]
Failed(e, procs) == [err |-> e, text |-> <<>>, procedures |-> procs]

\* construct of an instruction node: the construct of its class.
InstructionConstruct(node, procs, table) ==
  LET m == node.mneumonic
      ops == node.operands
  IN CASE m = "call" ->
            IF ops[1].name \in DOMAIN procs
            THEN Built(CallInstruction(procs, ops[1].name), procs)
            ELSE Failed(CallInstructionError, ProceduresGet(procs, ops[1].name))
       [] m = "syscall" ->
            IF ops = <<>> THEN Built(BareSyscall, procs)
            ELSE IF ops[1].name \in DOMAIN table
            THEN Built(SyscallInstruction(table, ops[1].name), procs)
            ELSE Failed(Error("ValueError", "Unknown syscall", ops[1].name), procs)
       [] m = "ret" -> Built(ReturnInstruction, procs)
       [] m = "push" -> Built(PushInstuction(ops[1].reg), procs)
       [] m = "pop" ->
            Built(PopInstruction(ops # <<>>, IF ops = <<>> THEN "" ELSE ops[1].reg), procs)
       [] m = "muli" ->
            Built(MultiplyIntegerInstruction(ops[1].reg, ops[2].reg, ops[3].n), procs)
       [] m = "modi" ->
            Built(ModuloIntegerInstruction(ops[1].reg, ops[2].reg, ops[3].n), procs)
       [] m = "mod" ->
            Built(ModuloRegisterInstruction(ops[1].reg, ops[2].reg, ops[3].reg), procs)
       [] OTHER -> Built(<<Line(m, arguments(node))>>, procs)

\* node.construct(ctxt)
NodeConstruct(node, procs, table) ==
  CASE node.t = "label" -> Built(LabelNode(node.name), procs)
    [] node.t = "proc" -> Built(ProcedureNode(node.name, node.parameters), procs)
    [] node.t = "instr" -> InstructionConstruct(node, procs, table)

RECURSIVE ConstructNodes(_, _, _, _)
\* construct(list, ctxt): the nodes in order; the first exception ends it.
ConstructNodes(nodes, procs, table, text) ==
  IF nodes = <<>> THEN Built(text, procs)
  ELSE LET res == NodeConstruct(Head(nodes), procs, table) IN
       IF res.err # NoError THEN res
       ELSE ConstructNodes(Tail(nodes), res.procedures, table, text \o res.text)

\* SectionNode.construct: the section's directive, the entry label, the call
\* of main, the halt syscall, the body, and the text '\n' (two empty lines
\* once joined).
SectionNode(typ, body, procs, table) ==
  LET entry == <<Label(Name_entry),
                 Instruction("call", <<IdentifierNode(Name_main)>>),
                 Instruction("syscall", <<IdentifierNode(Name_halt)>>)>>
      res == ConstructNodes(entry \o body, procs, table, <<Line(typ, <<>>)>>)
  IN IF res.err # NoError THEN res
     ELSE Built(res.text \o <<Blank, Blank>>, res.procedures)

(***************************************************************************)
(* build_file: the source of a unit (a text section, given by the items of *)
(* its body) is parsed, registered, validated, lowered, and the text is    *)
(* written to the unit's output file.                                      *)
(***************************************************************************)
ItemUniverse ==
  {Procedure(Name_main, <<>>),
   Procedure(Name_foo, <<PointerNode(sp, 4)>>),
   Instruction("call", <<IdentifierNode(Name_foo)>>),
   Instruction("syscall", <<IdentifierNode(Name_print_int)>>),
   Instruction("syscall", <<IdentifierNode(Name_foo)>>),
   Instruction("j", <<IdentifierNode(Name_foo)>>),
   Instruction("j", <<>>),
   BadToken}
Sources == UNION {[1..n -> ItemUniverse] : n \in 1..MaxNodes}

\* What an earlier build left in the output file.
OldFile == File(<<CommentNode(<<>>)>>)

InitUnit ==
  /\ cpu = CpuInit(SpWord)
  /\ stack = <<>>
  /\ out = <<>>
  /\ pc = "source"
  /\ hist = <<>>
  /\ last = NoOp
  /\ procedures = <<>>
  /\ symbols = <<>>
  /\ diags = <<>>
  /\ ast = <<>>
  /\ syscalls \in {table \in SyscallTables :
                     table[Name_halt].nl = table[Name_print_int].nl}
  /\ err = NoError
  /\ source_text \in Sources
  /\ build_target \in {NoFile, OldFile}

\* result = construct(ast, context) returns the text.
Construct ==
  /\ pc = "validated"
  /\ LET res == SectionNode(".text", ast, procedures, syscalls) IN
       /\ res.err = NoError
       /\ out' = res.text
       /\ procedures' = res.procedures
  /\ pc' = "constructed"
  /\ UNCHANGED <<source_text, build_target, cpu, stack, symbols, diags, hist, last, ast, syscalls, err>>

\* result = construct(ast, context) raises.
ConstructRaises ==
  /\ pc = "validated"
  /\ LET res == SectionNode(".text", ast, procedures, syscalls) IN
       /\ res.err # NoError
       /\ err' = res.err
       /\ procedures' = res.procedures
  /\ pc' = "failed"
  /\ UNCHANGED <<source_text, build_target, cpu, stack, symbols, out, diags, hist, last, ast, syscalls>>

\* Mutant: the text is written as soon as the Context is validated.
Write_beforeConstruct ==
  /\ pc = "validated"
  /\ build_target' = File(out)
  /\ pc' = "written"
  /\ UNCHANGED <<source_text, cpu, stack, procedures, symbols, out, diags, hist, last, ast, syscalls, err>>

\* build_target.write_text(result)
Write ==
  /\ pc = "constructed"
  /\ build_target' = File(out)
  /\ pc' = "written"
  /\ UNCHANGED <<source_text, cpu, stack, procedures, symbols, out, diags, hist, last, ast, syscalls, err>>

NextUnit ==
  \/ Parse
  \/ ParseRaises
  \/ Register
  \/ Validate
  \/ Construct
  \/ ConstructRaises
  \/ Write

SpecUnit == InitUnit /\ [][NextUnit]_vars

(***************************************************************************)
(* C13 Diagnostics come after code generation: validation runs only once   *)
(* the unit's code generation has completed successfully, so a unit whose  *)
(* code generation fails with a resolution error surfaces no diagnostic.   *)
(***************************************************************************)
ResolutionError == err.type \in {"AttributeError", "ValueError"} /\ ast # <<>>

DiagnosticsAfterCodeGeneration ==
  /\ diags # <<>> => pc \in {"constructed", "written"}
  /\ (pc = "failed" /\ ResolutionError) => diags = <<>>

(***************************************************************************)
(* C14 All-or-nothing output per unit: the output file changes only by the *)
(* write of the complete text, after parsing, registration and code        *)
(* generation have all returned without error; when one of them raises the *)
(* file is as it was; and diagnostics never prevent the write.             *)
(***************************************************************************)
AllOrNothingOutput ==
  /\ build_target \notin {NoFile, OldFile} =>
       /\ pc = "written"
       /\ err = NoError
       /\ parse(source_text, <<>>).err = NoError
       /\ ast = parse(source_text, <<>>).ast
       /\ SectionNode(".text", ast, register(ast, [procedures |-> <<>>, symbols |-> <<>>]).procedures,
                      syscalls).err = NoError
       /\ build_target = File(out)
       /\ Len(out) >= 2 /\ out[1] = Line(".text", <<>>) /\ out[Len(out)] = Blank
  /\ pc = "failed" => err # NoError /\ build_target \in {NoFile, OldFile}
  /\ pc = "constructed" => ENABLED Write

\* A unit with an unused procedure was written over the old file, complete.
AllOrNothingOutputWitness ==
  /\ pc = "written"
  /\ diags = <<Name_foo>>
  /\ build_target = File(out)
  /\ \E i \in 1..Len(out) : out[i] = Line(":", <<IdentifierNode(Name_foo)>>)
  /\ \E i \in 1..Len(out) : out[i] = Line("syscall", <<>>)

(***************************************************************************)
(* C15 One recorded group per spill: spill(R, depth), R not empty, adds    *)
(* exactly one entry, R itself, to the stack of spilled groups, so the     *)
(* next unspill() pops R and emits loads for the registers of R, in R's    *)
(* order, then a stack-pointer increment of 4*len(R).                      *)
(***************************************************************************)
\* The groups handed to spill and not yet unspilled, oldest first.
GroupsSpilled == [i \in 1..Len(hist) |-> hist[i].registers]

LoadsOf(R) ==
  [i \in 1..Len(R) |->
     Line("lw", <<RegisterNode(R[i]), PointerNode("$sp", 4 * i)>>)]
  \o <<Line("addi", <<RegisterNode("$sp"), RegisterNode("$sp"), NumberNode(4 * Len(R))>>)>>

OneGroupPerSpill ==
  /\ last.kind = "spill" => stack = GroupsSpilled
  /\ last.kind = "unspill" /\ last.frame.kind = "spill" =>
       /\ last.registers = last.frame.registers
       /\ out = LoadsOf(last.frame.registers)
       /\ stack = GroupsSpilled

(***************************************************************************)
(* C16 Multiply by immediate: for every destination other than $t9, every  *)
(* source register and every immediate imm, the text of                    *)
(* `muli dest, src, imm` (li $t9, imm; mul dest, $t9, src) leaves dest     *)
(* equal to the value src held before, times imm.                          *)
(***************************************************************************)
MultiplyByImmediate ==
  (last.kind = "muli" /\ last.registers[1] # "$t9") =>
    /\ out = << Line("li", <<RegisterNode("$t9"), NumberNode(last.val)>>),
                Line("mul", <<RegisterNode(last.registers[1]), RegisterNode("$t9"),
                              RegisterNode(last.registers[2])>>) >>
    /\ ~cpu.fault
    /\ cpu.regs[last.registers[1]] = last.before.regs[last.registers[2]] * last.val

(***************************************************************************)
(* C17 Nested depth spills: from k words at offsets 4..4k of $sp, after n  *)
(* consecutive spill([r_j], depth=k), n >= 1, the k words are read         *)
(* unchanged at offsets 4..4k of the current $sp, $sp is 4n lower, and the *)
(* saved values lie beneath them, last in first: the j-th most recent save *)
(* at offset 4(k+j).                                                       *)
(***************************************************************************)
RECURSIVE SavesOf(_, _)
\* The single-register saves a spill of the group R at depth > 0 performs,
\* in the order they are performed (the last register first), each with
\* the value the register held when the group was spilled.
SavesOf(frame, n) ==
  IF n = 0 THEN <<>>
  ELSE <<[reg |-> frame.registers[n], val |-> frame.before.regs[frame.registers[n]]]>>
       \o SavesOf(frame, n - 1)

RECURSIVE SavesIn(_)
\* The saves of the outstanding spills, oldest first.
SavesIn(frames) ==
  IF frames = <<>> THEN <<>>
  ELSE SavesOf(Head(frames), Len(Head(frames).registers)) \o SavesIn(Tail(frames))

NestedCase == last.kind = "spill" /\ last.depth > 0 /\ hist # <<>>

\* The value the m-th save stored: the value its register held when the
\* store ran.  For $t9 that is the last word shifted through it, for $sp the
\* stack pointer as the m saves so far have lowered it.
Stored(saves, m, base, k) ==
  IF saves[m].reg = "$t9" THEN Load(base, base.regs["$sp"] + 4 * k)
  ELSE IF saves[m].reg = "$sp" THEN base.regs["$sp"] - 4 * m
  ELSE saves[m].val

NestedDepthSpills ==
  NestedCase =>
    LET k == last.depth
        saves == SavesIn(hist)
        n == Len(saves)
        base == hist[1].before
        spNow == cpu.regs["$sp"]
    IN /\ ~cpu.fault
       /\ spNow = base.regs["$sp"] - 4 * n
       /\ \A i \in 1..k : Load(cpu, spNow + 4 * i) = Load(base, base.regs["$sp"] + 4 * i)
       /\ \A j \in 1..n :
            Load(cpu, spNow + 4 * (k + j)) = Stored(saves, n - j + 1, base, k)

\* Two nested saves beneath two words: $ra, then $s0.
NestedDepthSpillsWitness ==
  /\ NestedCase
  /\ last.depth = 2
  /\ Len(hist) = 2
  /\ hist[1].registers = <<"$ra">>
  /\ hist[2].registers = <<"$s0">>
  /\ cpu.regs["$sp"] = hist[1].before.regs["$sp"] - 8
  /\ Load(cpu, cpu.regs["$sp"] + 12) = RegInit("$s0")
  /\ Load(cpu, cpu.regs["$sp"] + 16) = RegInit("$ra")
  /\ Load(cpu, cpu.regs["$sp"] + 4) = MemInit(hist[1].before.regs["$sp"] + 4)

(***************************************************************************)
(* C18 Register frame of a spill: the text of spill(R, depth) changes no   *)
(* register but $sp when depth = 0, and none but $sp and $t9 when          *)
(* depth > 0; every word it writes lies at an offset between 0 and         *)
(* 4*(depth + len(R)) of the final $sp.                                    *)
(***************************************************************************)
RECURSIVE Writes(_, _)
\* The addresses the stores of a text write when it runs from machine M.
Writes(M, text) ==
  IF text = <<>> THEN {}
  ELSE LET here == IF Head(text).op = "sw" THEN {EffAddr(M, Head(text).args[2])} ELSE {}
           next == Exec(M, Head(text), NoEnv)
       IN IF next.fault THEN here ELSE here \cup Writes(next, Tail(text))

SpillRegisterFrame ==
  last.kind = "spill" =>
    LET spNow == cpu.regs["$sp"]
        top == 4 * (last.depth + Len(last.registers))
        scratch == IF last.depth = 0 THEN {"$sp"} ELSE {"$sp", "$t9"}
    IN /\ ~cpu.fault
       /\ \A r \in Registers \ scratch : cpu.regs[r] = last.before.regs[r]
       /\ \A a \in Writes(last.before, out) : a - spNow \in 0..top
       /\ \A a \in Addr : cpu.mem[a] # last.before.mem[a] => a - spNow \in 0..top

\* spill($ra, $s0, depth=1) changed $t9 and wrote the word at offset 12.
SpillRegisterFrameWitness ==
  /\ last.kind = "spill"
  /\ last.registers = <<"$ra", "$s0">>
  /\ last.depth = 1
  /\ cpu.regs["$t9"] # last.before.regs["$t9"]
  /\ cpu.regs["$sp"] + 12 \in Writes(last.before, out)
  /\ cpu.regs["$ra"] = last.before.regs["$ra"]

(***************************************************************************)
(* A program: the text section and the data section the parser found.     *)
(* ProgramNode itself is not among the sources; it is taken to lower to    *)
(* the texts of its sections, in either order, and to supply or not an     *)
(* empty data section when the source has none.                            *)
(***************************************************************************)
\* A line that holds the text of operands only (the value of a `.word`).
RawLine(operands) == [op |-> "raw", args |-> operands]

\* WordDataDefinitionNode.construct: '.word' and the data, joined by '\n'.
WordDataDefinitionNode(value) == <<Line(".word", <<>>), RawLine(<<NumberNode(value)>>)>>

\* A binding of a data section: [name, value] for `name: .word value`.
Binding(nm, value) == [name |-> nm, value |-> value]

RECURSIVE BindingsText(_)
\* [list(x) for x in self.body.items()], constructed.
BindingsText(body) ==
  IF body = <<>> THEN <<>>
  ELSE LabelNode(Head(body).name) \o WordDataDefinitionNode(Head(body).value)
       \o BindingsText(Tail(body))

\* DataSectionNode.construct
DataSectionNode(body) ==
  <<Line(".data", <<>>)>> \o LabelNode(Name_return) \o WordDataDefinitionNode(0)
  \o BindingsText(body)

RECURSIVE RegisterBindings(_, _)
\* DataSectionNode.register: every label is registered, the data leave the
\* Context alone.
RegisterBindings(body, sy) ==
  IF body = <<>> THEN sy
  ELSE RegisterBindings(Tail(body), LabelRegister(sy, Head(body).name))

\* The program: `data` is the body of the data section when hasData.
Program(hasData, data, text, suppliesData, dataFirst) ==
  [hasData |-> hasData, data |-> data, text |-> text,
   suppliesData |-> suppliesData, dataFirst |-> dataFirst]

ProgramRegister(program) ==
  register(program.text,
           [procedures |-> <<>>, symbols |-> RegisterBindings(program.data, <<>>)])

\* The text of the program, given the text of its text section.
ProgramNode_(program, text) ==
  LET dataText == IF program.hasData THEN DataSectionNode(program.data)
                  ELSE IF program.suppliesData THEN DataSectionNode(<<>>)
                  ELSE <<>>
  IN IF program.dataFirst THEN dataText \o text ELSE text \o dataText

DataBodies ==
  LET names == {Name_bar, Name_tmp, Name_return} IN
    {<<>>} \cup {<<Binding(a, v)>> : a \in names, v \in {0, 5}}
    \cup {<<Binding(pair[1], 5), Binding(pair[2], 0)>> :
            pair \in {pr \in names \X names : pr[1] # pr[2]}}
TextBodies ==
  {<<Procedure(Name_main, <<>>)>> \o rest :
     rest \in {<<>>,
               <<Instruction("syscall", <<IdentifierNode(Name_print_int)>>)>>,
               <<Instruction("lw", <<RegisterNode("$t0"), IdentifierNode(Name_bar)>>)>>}}
  \cup {<<Procedure(Name_foo, <<>>)>>}
InitProgram ==
  /\ cpu = CpuInit(SpWord)
  /\ stack = <<>>
  /\ out = <<>>
  /\ pc = "parsed"
  /\ hist = <<>>
  /\ last = NoOp
  /\ procedures = <<>>
  /\ symbols = <<>>
  /\ diags = <<>>
  /\ \E data \in DataBodies, text \in TextBodies, suppliesData, dataFirst \in BOOLEAN :
       /\ data # <<>> => ~suppliesData
       /\ ast = Program(data # <<>>, data, text, suppliesData, dataFirst)
  /\ syscalls \in {table \in SyscallTables :
                     table[Name_halt].nl = table[Name_print_int].nl}
  /\ err = NoError
  /\ source_text = <<>>
  /\ build_target = NoFile

\* context = register(ast)
RegisterProgram ==
  /\ pc = "parsed"
  /\ LET ctxt == ProgramRegister(ast) IN
       /\ procedures' = ctxt.procedures
       /\ symbols' = ctxt.symbols
  /\ pc' = "registered"
  /\ UNCHANGED <<source_text, build_target, cpu, stack, out, diags, hist, last, ast, syscalls, err>>

\* result = construct(ast, context) returns the text.
ConstructProgram ==
  /\ pc = "registered"
  /\ LET res == SectionNode(".text", ast.text, procedures, syscalls) IN
       /\ res.err = NoError
       /\ out' = ProgramNode_(ast, res.text)
       /\ procedures' = res.procedures
  /\ pc' = "constructed"
  /\ UNCHANGED <<source_text, build_target, cpu, stack, symbols, diags, hist, last, ast, syscalls, err>>

\* result = construct(ast, context) raises.
ConstructProgramRaises ==
  /\ pc = "registered"
  /\ LET res == SectionNode(".text", ast.text, procedures, syscalls) IN
       /\ res.err # NoError
       /\ err' = res.err
       /\ procedures' = res.procedures
  /\ pc' = "failed"
  /\ UNCHANGED <<source_text, build_target, cpu, stack, symbols, out, diags, hist, last, ast, syscalls>>

NextProgram == RegisterProgram \/ ConstructProgram \/ ConstructProgramRaises

SpecProgram == InitProgram /\ [][NextProgram]_vars

(***************************************************************************)
(* C19 `_return` is declared wherever it is used: a generated text that    *)
(* holds a store to `_return` also holds the declaration of the label      *)
(* `_return` as a zero-initialized word, exactly once, ahead of the        *)
(* user-declared data bindings.                                            *)
(***************************************************************************)
StoresReturn ==
  \E i \in 1..Len(out) :
    out[i].op = "sw" /\ out[i].args[2] = IdentifierNode(Name_return)

IsLabelLine(i, nm) == out[i] = Line(":", <<IdentifierNode(nm)>>)

DeclaresZeroWord(i) ==
  /\ IsLabelLine(i, Name_return)
  /\ i + 2 <= Len(out)
  /\ out[i + 1] = Line(".word", <<>>)
  /\ out[i + 2] = RawLine(<<NumberNode(0)>>)

ReturnDeclaredWhereUsed ==
  (pc = "constructed" /\ StoresReturn) =>
    /\ Cardinality({i \in 1..Len(out) : IsLabelLine(i, Name_return)}) = 1
    /\ \E i \in 1..Len(out) :
         /\ DeclaresZeroWord(i)
         /\ \A j \in 1..Len(out) :
              (\E b \in 1..Len(ast.data) : IsLabelLine(j, ast.data[b].name) /\ j # i) => i < j

====
